---- MODULE Spec2Model ----
(***************************************************************************)
(* Porcupine Assistant (app.py): the command router, the safe actions, the *)
(* push-to-talk recorder and the two session loops, as a state machine.    *)
(* Text is a sequence of one-character strings, so that the regular        *)
(* expressions of handle_command are matched character by character.       *)
(***************************************************************************)
EXTENDS Integers, Sequences, FiniteSets, TLC

(***************************************************************************)
(* Characters and the str methods the program uses                          *)
(***************************************************************************)
Lowers == << "a","b","c","d","e","f","g","h","i","j","k","l","m",
             "n","o","p","q","r","s","t","u","v","w","x","y","z" >>

Uppers == << "A","B","C","D","E","F","G","H","I","J","K","L","M",
             "N","O","P","Q","R","S","T","U","V","W","X","Y","Z" >>

DigitChars == << "0","1","2","3","4","5","6","7","8","9" >>

LowerSet == { Lowers[i] : i \in DOMAIN Lowers }

UpperSet == { Uppers[i] : i \in DOMAIN Uppers }

DigitSet == { DigitChars[i] : i \in DOMAIN DigitChars }

IsLower(c) == c \in LowerSet

IsUpper(c) == c \in UpperSet

IsDigit(c) == c \in DigitSet

\* \s of the re module, over the characters the model draws
IsSpace(c) == c = " "

\* \w of the re module: letters, digits and the underscore
IsWordChar(c) == IsLower(c) \/ IsUpper(c) \/ IsDigit(c) \/ c = "_"

\* [a-z0-9\.\-]
IsDomainChar(c) == IsLower(c) \/ IsDigit(c) \/ c = "." \/ c = "-"

Min(S) == CHOOSE x \in S : \A y \in S : x <= y

Max(S) == CHOOSE x \in S : \A y \in S : x >= y

\* str.lower() of one character
LowerChar(c) ==
    IF IsUpper(c) THEN Lowers[CHOOSE i \in DOMAIN Uppers : Uppers[i] = c] ELSE c

\* str.lower()
Lower(s) == [i \in 1..Len(s) |-> LowerChar(s[i])]

\* the length of the longest run of characters satisfying P that starts at
\* position j of s (1 <= j <= Len(s) + 1)
Run(P(_), s, j) ==
    CHOOSE n \in 0..(Len(s) - j + 1) :
        /\ \A k \in j..(j + n - 1) : P(s[k])
        /\ (j + n > Len(s) \/ ~P(s[j + n]))

\* the length of the longest run of characters satisfying P that ends s
RunBack(P(_), s) ==
    CHOOSE n \in 0..Len(s) :
        /\ \A k \in (Len(s) - n + 1)..Len(s) : P(s[k])
        /\ (n = Len(s) \/ ~P(s[Len(s) - n]))

\* str.strip()
Strip(s) ==
    LET a == Run(IsSpace, s, 1)
    IN  IF a = Len(s) THEN << >>
        ELSE SubSeq(s, a + 1, Len(s) - RunBack(IsSpace, s))

\* " ".join(parts)
RECURSIVE JoinSpace(_)
JoinSpace(parts) ==
    IF parts = << >> THEN << >>
    ELSE IF Len(parts) = 1 THEN parts[1]
    ELSE parts[1] \o << " " >> \o JoinSpace(Tail(parts))

\* int(digits) of a non-empty run of decimal digits
RECURSIVE ParseInt(_)
ParseInt(ds) ==
    IF ds = << >> THEN 0
    ELSE 10 * ParseInt(SubSeq(ds, 1, Len(ds) - 1))
         + ((CHOOSE i \in DOMAIN DigitChars : DigitChars[i] = ds[Len(ds)]) - 1)

(***************************************************************************)
(* The pieces of the re module the patterns use                             *)
(***************************************************************************)
\* \b before position i of s (i = Len(s) + 1 is the end of the text)
Boundary(s, i) ==
    ((i > 1) /\ IsWordChar(s[i - 1])) # ((i <= Len(s)) /\ IsWordChar(s[i]))

\* the literal w matches at position i of s
LitAt(s, i, w) ==
    /\ i + Len(w) - 1 <= Len(s)
    /\ SubSeq(s, i, i + Len(w) - 1) = w

\* re.search(r"\b(w1|w2|...)\b", s) finds a match
WordSearch(s, words) ==
    \E i \in 1..Len(s) :
        /\ Boundary(s, i)
        /\ \E w \in words : LitAt(s, i, w) /\ Boundary(s, i + Len(w))

(***************************************************************************)
(* The words of the patterns of handle_command                              *)
(***************************************************************************)
W_quit == << "q","u","i","t" >>

W_exit == << "e","x","i","t" >>

W_stop_assistant == << "s","t","o","p"," ","a","s","s","i","s","t","a","n","t" >>

W_goodbye == << "g","o","o","d","b","y","e" >>

W_help == << "h","e","l","p" >>

W_what_can_you_do == << "w","h","a","t"," ","c","a","n"," ","y","o","u"," ","d","o" >>

W_time == << "t","i","m","e" >>

W_date == << "d","a","t","e" >>

W_day == << "d","a","y" >>

W_open == << "o","p","e","n" >>

W_launch == << "l","a","u","n","c","h" >>

W_start == << "s","t","a","r","t" >>

W_chrome == << "c","h","r","o","m","e" >>

W_calculator == << "c","a","l","c","u","l","a","t","o","r" >>

W_notepad == << "n","o","t","e","p","a","d" >>

W_vscode == << "v","s","c","o","d","e" >>

W_website == << "w","e","b","s","i","t","e" >>

W_search == << "s","e","a","r","c","h" >>

W_note == << "n","o","t","e" >>

W_take == << "t","a","k","e" >>

W_timer == << "t","i","m","e","r" >>

W_for == << "f","o","r" >>

W_seconds == << "s","e","c","o","n","d","s" >>

W_second == << "s","e","c","o","n","d" >>

W_minutes == << "m","i","n","u","t","e","s" >>

W_minute == << "m","i","n","u","t","e" >>

W_hours == << "h","o","u","r","s" >>

W_hour == << "h","o","u","r" >>

W_min == << "m","i","n" >>

\* line 165: (quit|exit|stop assistant|goodbye)
TermWords == { W_quit, W_exit, W_stop_assistant, W_goodbye }

\* line 169: (help|what can you do)
HelpWords == { W_help, W_what_can_you_do }

\* line 174
TimeWords == { W_time }

\* line 178: (date|day)
DateWords == { W_date, W_day }

\* line 182: (open|launch|start)
LaunchVerbs == { W_open, W_launch, W_start }

\* line 182: (chrome|calculator|notepad|vscode)
AppPattern == { W_chrome, W_calculator, W_notepad, W_vscode }

\* line 217: (seconds|second|minutes|minute|hours|hour), in the order tried
UnitWords == << W_seconds, W_second, W_minutes, W_minute, W_hours, W_hour >>

NoMatch == [ok |-> FALSE]

\* x comes before y in the lexicographic order of equally long integer tuples
LexLess(x, y) ==
    \E k \in DOMAIN x : x[k] < y[k] /\ \A m \in 1..(k - 1) : x[m] = y[m]

\* the match a backtracking matcher finds first: every choice point is
\* greedy, and an earlier choice point is revised only after the later ones
\* are exhausted, so the first match has the lexicographically largest key
Best(C) == CHOOSE c \in C : \A o \in C : ~LexLess(c.key, o.key)

\* -------------------------------------------------------------------------
\* Rule 5: \b(open|launch|start)\s+(chrome|calculator|notepad|vscode)\b
\* -------------------------------------------------------------------------
AppsAt(s, i) ==
    { a \in AppPattern :
        \E v \in LaunchVerbs :
            /\ Boundary(s, i)
            /\ LitAt(s, i, v)
            /\ \E n \in 1..Run(IsSpace, s, i + Len(v)) :
                  /\ LitAt(s, i + Len(v) + n, a)
                  /\ Boundary(s, i + Len(v) + n + Len(a)) }

MatchApp(s) ==
    LET I == { i \in 1..Len(s) : AppsAt(s, i) # {} }
    IN  IF I = {} THEN NoMatch
        ELSE [ok |-> TRUE, app |-> CHOOSE a \in AppsAt(s, Min(I)) : TRUE]

\* -------------------------------------------------------------------------
\* Rule 6: \bopen\s+(website\s+)?([a-z0-9\.\-]+\.[a-z]{2,})(/[\S]*)?\b
\* -------------------------------------------------------------------------
IsNonSpace(c) == ~IsSpace(c)

\* <<n1, w, n2, d>>: n1 spaces after "open", w = 1 when "website" and n2
\* more spaces follow, d the position where the domain starts
WebStarts(s, i) ==
    IF ~(Boundary(s, i) /\ LitAt(s, i, W_open)) THEN {}
    ELSE LET j == i + Len(W_open)
         IN  UNION { { <<n1, 0, 0, j + n1>> } \cup
                     ( IF LitAt(s, j + n1, W_website)
                       THEN { <<n1, 1, n2, j + n1 + Len(W_website) + n2>> :
                                n2 \in 1..Run(IsSpace, s, j + n1 + Len(W_website)) }
                       ELSE {} ) :
                     n1 \in 1..Run(IsSpace, s, j) }

\* <<a, b>>: a characters of [a-z0-9\.\-], a dot, b >= 2 letters, from d
WebDomains(s, d) ==
    UNION { IF d + a <= Len(s) /\ s[d + a] = "."
            THEN { <<a, b>> : b \in 2..Run(IsLower, s, d + a + 1) }
            ELSE {} :
            a \in 1..Run(IsDomainChar, s, d) }

\* the path from position e: -1 when absent, else the number of non-space
\* characters after the slash; the pattern ends with \b
WebPaths(s, e) ==
    { p \in { -1 } \cup ( IF e <= Len(s) /\ s[e] = "/"
                          THEN 0..Run(IsNonSpace, s, e + 1) ELSE {} ) :
        Boundary(s, IF p = -1 THEN e ELSE e + 1 + p) }

WebCands(s, i) ==
    UNION { UNION { { [key |-> <<st[1], st[2], st[3], ab[1], ab[2], p>>, d |-> st[4]] :
                        p \in WebPaths(s, st[4] + ab[1] + 1 + ab[2]) } :
                    ab \in WebDomains(s, st[4]) } :
            st \in WebStarts(s, i) }

MatchWebsite(s) ==
    LET I == { i \in 1..Len(s) : WebCands(s, i) # {} }
    IN  IF I = {} THEN NoMatch
        ELSE LET c == Best(WebCands(s, Min(I)))
                 e == c.d + c.key[4] + 1 + c.key[5]
             IN  [ok |-> TRUE,
                  domain |-> SubSeq(s, c.d, e - 1),
                  path |-> IF c.key[6] = -1 THEN << >> ELSE SubSeq(s, e, e + c.key[6])]

\* -------------------------------------------------------------------------
\* Rules 7 and 8: \bsearch\s+(.+)$ and \b(note|take\s+note)\s+(.+)$
\* -------------------------------------------------------------------------
\* \s+(.+)$ from position j: the spaces are greedy but leave one character
\* to the group, which runs to the end of the text
MatchRest(s, j) ==
    LET N == { n \in 1..Run(IsSpace, s, j) : j + n <= Len(s) }
    IN  IF N = {} THEN NoMatch
        ELSE [ok |-> TRUE, rest |-> SubSeq(s, j + Max(N), Len(s))]

MatchSearch(s) ==
    LET I == { i \in 1..Len(s) :
                 /\ Boundary(s, i)
                 /\ LitAt(s, i, W_search)
                 /\ MatchRest(s, i + Len(W_search)).ok }
    IN  IF I = {} THEN NoMatch
        ELSE [ok |-> TRUE, q |-> MatchRest(s, Min(I) + Len(W_search)).rest]

\* the positions after (note|take\s+note) matched at i
NoteHeads(s, i) ==
    IF ~Boundary(s, i) THEN {}
    ELSE ( IF LitAt(s, i, W_note) THEN { i + Len(W_note) } ELSE {} ) \cup
         ( IF LitAt(s, i, W_take)
           THEN { i + Len(W_take) + n + Len(W_note) :
                    n \in { m \in 1..Run(IsSpace, s, i + Len(W_take)) :
                              LitAt(s, i + Len(W_take) + m, W_note) } }
           ELSE {} )

MatchNote(s) ==
    LET I == { i \in 1..Len(s) : \E e \in NoteHeads(s, i) : MatchRest(s, e).ok }
    IN  IF I = {} THEN NoMatch
        ELSE LET e == CHOOSE h \in NoteHeads(s, Min(I)) : MatchRest(s, h).ok
             IN  [ok |-> TRUE, text |-> MatchRest(s, e).rest]

\* -------------------------------------------------------------------------
\* Rule 9:
\* \b(timer)\b.*\bfor\s+(\d+)\s*(seconds|second|minutes|minute|hours|hour)?\b
\* -------------------------------------------------------------------------
\* the matches of \bfor\s+(\d+)\s*(unit)?\b at position f; key is
\* <<spaces, digits, spaces, rank>>, rank 0 when the unit is absent and
\* larger for a unit tried earlier
TimerCands(s, f) ==
    IF ~(Boundary(s, f) /\ LitAt(s, f, W_for)) THEN {}
    ELSE LET j == f + Len(W_for)
         IN  UNION { UNION { UNION {
                 { [key |-> <<n1, dn, wn, r>>, d |-> j + n1] :
                     r \in { r \in 0..Len(UnitWords) :
                               LET p == j + n1 + dn + wn
                                   u == Len(UnitWords) + 1 - r
                               IN  IF r = 0 THEN Boundary(s, p)
                                   ELSE /\ LitAt(s, p, UnitWords[u])
                                        /\ Boundary(s, p + Len(UnitWords[u])) } } :
                 wn \in 0..Run(IsSpace, s, j + n1 + dn) } :
                 dn \in 1..Run(IsDigit, s, j + n1) } :
                 n1 \in 1..Run(IsSpace, s, j) }

\* the positions of "for" that .* can stop at after the timer word at i
TimerFors(s, i) ==
    IF ~(Boundary(s, i) /\ LitAt(s, i, W_timer) /\ Boundary(s, i + Len(W_timer)))
    THEN {}
    ELSE { f \in (i + Len(W_timer))..Len(s) : TimerCands(s, f) # {} }

MatchTimer(s) ==
    LET I == { i \in 1..Len(s) : TimerFors(s, i) # {} }
    IN  IF I = {} THEN NoMatch
        ELSE LET c == Best(TimerCands(s, Max(TimerFors(s, Min(I)))))
             IN  [ok |-> TRUE,
                  digits |-> SubSeq(s, c.d, c.d + c.key[2] - 1),
                  unit |-> IF c.key[4] = 0 THEN << >>
                           ELSE UnitWords[Len(UnitWords) + 1 - c.key[4]]]

(***************************************************************************)
(* The safe actions                                                         *)
(***************************************************************************)
T_calc == << "c","a","l","c" >>

T_code == << "c","o","d","e" >>

T_Google_Chrome == << "G","o","o","g","l","e"," ","C","h","r","o","m","e" >>

T_google_chrome == << "g","o","o","g","l","e","-","c","h","r","o","m","e" >>

T_Calculator == << "C","a","l","c","u","l","a","t","o","r" >>

T_gnome_calculator == << "g","n","o","m","e","-","c","a","l","c","u","l","a","t","o","r" >>

T_TextEdit == << "T","e","x","t","E","d","i","t" >>

T_gedit == << "g","e","d","i","t" >>

T_Visual_Studio_Code == << "V","i","s","u","a","l"," ","S","t","u","d","i","o"," ","C","o","d","e" >>

T_open == << "o","p","e","n" >>

T_dash_a == << "-","a" >>

W_http_scheme == << "h","t","t","p",":","/","/" >>

W_https_scheme == << "h","t","t","p","s",":","/","/" >>

\* CFG.allowed_apps
AllowedApps ==
    (W_chrome     :> [win |-> W_chrome,  mac |-> T_Google_Chrome,      linux |-> T_google_chrome]) @@
    (W_calculator :> [win |-> T_calc,    mac |-> T_Calculator,         linux |-> T_gnome_calculator]) @@
    (W_notepad    :> [win |-> W_notepad, mac |-> T_TextEdit,           linux |-> T_gedit]) @@
    (W_vscode     :> [win |-> T_code,    mac |-> T_Visual_Studio_Code, linux |-> T_code])

\* the values of sys.platform the model draws
SysPlatforms == { "win32", "darwin", "linux" }

\* platform_key()
PlatformKey(sysPlatform) ==
    IF sysPlatform = "win32" THEN "win"
    ELSE IF sysPlatform = "darwin" THEN "mac"
    ELSE "linux"

\* the subprocess.Popen call open_app makes for a target on platform p
PopenCall(target, p) ==
    IF p = "win" THEN [argv |-> << target >>, shell |-> TRUE]
    ELSE IF p = "mac" THEN [argv |-> << T_open, T_dash_a, target >>, shell |-> FALSE]
    ELSE [argv |-> << target >>, shell |-> FALSE]

\* an open_app that hands any key it does not know to the launcher as it is
OpenAppUnchecked(app_key, sysPlatform, popenOk) ==
    LET key == Strip(Lower(app_key))
        p   == PlatformKey(sysPlatform)
        target == IF key \in DOMAIN AllowedApps THEN AllowedApps[key][p] ELSE key
    IN  [calls |-> << PopenCall(target, p) >>,
         raised |-> IF popenOk THEN "none" ELSE "OSError"]

\* open_app(app_key): the Popen calls made and the exception raised, if any;
\* popenOk is whether the operating system starts the process
OpenApp(app_key, sysPlatform, popenOk) ==
    LET key == Strip(Lower(app_key))
        p   == PlatformKey(sysPlatform)
    IN  IF key \notin DOMAIN AllowedApps
        THEN [calls |-> << >>, raised |-> "ValueError"]
        ELSE [calls |-> << PopenCall(AllowedApps[key][p], p) >>,
              raised |-> IF popenOk THEN "none" ELSE "OSError"]

\* open_website(url): the URL handed to webbrowser.open
OpenWebsite(url) ==
    IF LitAt(url, 1, W_http_scheme) \/ LitAt(url, 1, W_https_scheme)
    THEN url ELSE W_https_scheme \o url

\* str.replace(" ", "+")
SpacesToPlus(s) == [i \in 1..Len(s) |-> IF s[i] = " " THEN "+" ELSE s[i]]

\* web_search(query): the query part of the URL handed to webbrowser.open,
\* after the fixed prefix https://www.google.com/search?q=
WebSearch(query) == SpacesToPlus(Strip(query))

\* a conversion that takes every count for seconds
ParseSecondsPlain(n, unit) == n

\* parse_seconds(n, unit)
ParseSeconds(n, unit) ==
    LET u == Lower(IF unit = << >> THEN W_seconds ELSE unit)
    IN  IF LitAt(u, 1, W_min) THEN n * 60
        ELSE IF LitAt(u, 1, W_hour) THEN n * 3600
        ELSE n

\* one SPEAKER.say call: the fixed wording, the text and the number filled in
Say(kind, arg, n) == [kind |-> kind, arg |-> arg, n |-> n]

\* what handle_command decides from the text: the first rule (1..10) whose
\* pattern matches, with the groups of the match that the rule's body uses
NoRequest == [rule |-> 0, arg |-> << >>, more |-> << >>]

\* a chain that tries the search rule before the two open rules
RouteLowSearchFirst(low) ==
    IF WordSearch(low, TermWords) THEN [NoRequest EXCEPT !.rule = 1]
    ELSE IF WordSearch(low, HelpWords) THEN [NoRequest EXCEPT !.rule = 2]
    ELSE IF WordSearch(low, TimeWords) THEN [NoRequest EXCEPT !.rule = 3]
    ELSE IF WordSearch(low, DateWords) THEN [NoRequest EXCEPT !.rule = 4]
    ELSE IF MatchSearch(low).ok /\ Strip(MatchSearch(low).q) # << >>
    THEN [NoRequest EXCEPT !.rule = 7, !.arg = Strip(MatchSearch(low).q)]
    ELSE IF MatchApp(low).ok
    THEN [NoRequest EXCEPT !.rule = 5, !.arg = MatchApp(low).app]
    ELSE IF MatchWebsite(low).ok
    THEN [NoRequest EXCEPT !.rule = 6, !.arg = MatchWebsite(low).domain,
                           !.more = MatchWebsite(low).path]
    ELSE IF MatchNote(low).ok /\ Strip(MatchNote(low).text) # << >>
    THEN [NoRequest EXCEPT !.rule = 8, !.arg = Strip(MatchNote(low).text)]
    ELSE IF MatchTimer(low).ok
    THEN [NoRequest EXCEPT !.rule = 9, !.arg = MatchTimer(low).digits,
                           !.more = MatchTimer(low).unit]
    ELSE [NoRequest EXCEPT !.rule = 10]

\* lines 165-228: the chain of rules, on the stripped and lowered text
RouteLow(low) ==
    IF WordSearch(low, TermWords) THEN [NoRequest EXCEPT !.rule = 1]
    ELSE IF WordSearch(low, HelpWords) THEN [NoRequest EXCEPT !.rule = 2]
    ELSE IF WordSearch(low, TimeWords) THEN [NoRequest EXCEPT !.rule = 3]
    ELSE IF WordSearch(low, DateWords) THEN [NoRequest EXCEPT !.rule = 4]
    ELSE IF MatchApp(low).ok
    THEN [NoRequest EXCEPT !.rule = 5, !.arg = MatchApp(low).app]
    ELSE IF MatchWebsite(low).ok
    THEN [NoRequest EXCEPT !.rule = 6, !.arg = MatchWebsite(low).domain,
                           !.more = MatchWebsite(low).path]
    ELSE IF MatchSearch(low).ok /\ Strip(MatchSearch(low).q) # << >>
    THEN [NoRequest EXCEPT !.rule = 7, !.arg = Strip(MatchSearch(low).q)]
    ELSE IF MatchNote(low).ok /\ Strip(MatchNote(low).text) # << >>
    THEN [NoRequest EXCEPT !.rule = 8, !.arg = Strip(MatchNote(low).text)]
    ELSE IF MatchTimer(low).ok
    THEN [NoRequest EXCEPT !.rule = 9, !.arg = MatchTimer(low).digits,
                           !.more = MatchTimer(low).unit]
    ELSE [NoRequest EXCEPT !.rule = 10]

\* a router that compares the text as it was spoken, without lowering it
RouteCaseSensitive(text) == RouteLow(Strip(text))

\* lines 162-163: t = text.strip(), low = t.lower()
Route(text) == RouteLow(Lower(Strip(text)))

\* what one call of handle_command does: the rule taken, the value
\* returned, the exception that escapes (if any) and the calls made:
\* SPEAKER.say, subprocess.Popen, webbrowser.open, the line appended to the
\* notes file, time.sleep, and the order of these calls
NoEffects ==
    [rule |-> 0, keep |-> TRUE, raised |-> "none", say |-> << >>,
     launch |-> << >>, browse |-> << >>, note |-> << >>, sleep |-> << >>,
     trace |-> << >>]

\* the body of the rule handle_command took, on a host with the given
\* sys.platform, where env says how the outside world answers: popenOk (the
\* process starts), browserOk (webbrowser.open returns True), writeOk (the
\* notes file can be opened and written)
Execute(req, sysPlatform, env) ==
    CASE req.rule = 1 ->
            [NoEffects EXCEPT !.rule = 1, !.keep = FALSE,
                              !.say = << Say("Goodbye.", << >>, 0) >>,
                              !.trace = << "say" >>]
      [] req.rule = 2 ->
            [NoEffects EXCEPT !.rule = 2,
                              !.say = << Say("Try: open chrome, search something, note your text, timer for 10 seconds, or ask time.", << >>, 0) >>,
                              !.trace = << "say" >>]
      [] req.rule = 3 ->
            [NoEffects EXCEPT !.rule = 3,
                              !.say = << Say("The time is", << >>, 0) >>,
                              !.trace = << "say" >>]
      [] req.rule = 4 ->
            [NoEffects EXCEPT !.rule = 4,
                              !.say = << Say("Today is", << >>, 0) >>,
                              !.trace = << "say" >>]
      [] req.rule = 5 ->
            LET r == OpenApp(req.arg, sysPlatform, env.popenOk)
            IN  [NoEffects EXCEPT !.rule = 5,
                                  !.launch = r.calls,
                                  !.say = IF r.raised = "none"
                                          THEN << Say("Opening", req.arg, 0) >>
                                          ELSE << Say("I couldn't open", req.arg, 0) >>,
                                  !.trace = (IF r.calls = << >> THEN << >> ELSE << "launch" >>)
                                            \o << "say" >>]
      [] req.rule = 6 ->
            [NoEffects EXCEPT !.rule = 6,
                              !.say = << Say("Opening", req.arg, 0) >>,
                              !.browse = << [url |-> OpenWebsite(req.arg \o req.more),
                                             query |-> FALSE, opened |-> env.browserOk] >>,
                              !.trace = << "say", "browse" >>]
      [] req.rule = 7 ->
            [NoEffects EXCEPT !.rule = 7,
                              !.say = << Say("Searching for", req.arg, 0) >>,
                              !.browse = << [url |-> WebSearch(req.arg),
                                             query |-> TRUE, opened |-> env.browserOk] >>,
                              !.trace = << "say", "browse" >>]
      [] req.rule = 8 ->
            IF env.writeOk
            THEN [NoEffects EXCEPT !.rule = 8,
                                   !.note = << req.arg >>,
                                   !.say = << Say("Saved.", << >>, 0) >>,
                                   !.trace = << "note", "say" >>]
            ELSE [NoEffects EXCEPT !.rule = 8, !.raised = "OSError"]
      [] req.rule = 9 ->
            LET n    == ParseInt(req.arg)
                unit == IF req.more = << >> THEN W_seconds ELSE req.more
                secs == ParseSeconds(n, unit)
            IN  [NoEffects EXCEPT !.rule = 9,
                                  !.say = << Say("Timer set for", unit, n),
                                             Say("Time is up!", << >>, 0) >>,
                                  !.sleep = << secs >>,
                                  !.trace = << "say", "sleep", "say" >>]
      [] OTHER ->
            [NoEffects EXCEPT !.rule = 10,
                              !.say = << Say("I heard you, but that action isn't installed yet. Say 'help'.", << >>, 0) >>,
                              !.trace = << "say" >>]

\* handle_command(text)
HandleCommand(text, sysPlatform, env) == Execute(Route(text), sysPlatform, env)

\* a transcription that joins the segments' texts as they are
TranscribeRaw(segments) == JoinSpace(segments)

\* STTCore.transcribe: the segments' texts, each stripped, joined by one
\* space, and the result stripped
Transcribe(segments) ==
    Strip(JoinSpace([i \in 1..Len(segments) |-> Strip(segments[i])]))

(***************************************************************************)
(* The push-to-talk recorder: the candidates record_ptt tries               *)
(***************************************************************************)
\* line 267: the fallback rates
FallbackRates == << 44100, 48000, 32000, 24000, 22050, 16000 >>

\* line 300: block = 4096
BlockSize == 4096

\* seconds are counted in 1/SecondsDen of a second (--seconds is a float);
\* a power of two, so that seconds * rate is exact in floating point too
SecondsDen == 8

\* int(x) of Python: truncation towards zero
TruncDiv(a, b) == IF a >= 0 THEN a \div b ELSE -((-a) \div b)

\* a / b rounded to the nearest integer, halves to the even one (b > 0)
RoundDiv(a, b) ==
    LET q == IF a >= 0 THEN a \div b ELSE -(((-a) + b - 1) \div b)
        r == a - q * b
    IN  IF 2 * r < b THEN q
        ELSE IF 2 * r > b THEN q + 1
        ELSE IF q % 2 = 0 THEN q ELSE q + 1

\* a frame count that is rounded to the nearest integer
FramesRounded(secs, sr) == RoundDiv(secs * sr, SecondsDen)

\* int(seconds * sr), lines 293 and 409
Frames(secs, sr) == TruncDiv(secs * sr, SecondsDen)

\* _input_devices(): the input-capable devices with their indexes
RECURSIVE InputDevicesFrom(_, _)
InputDevicesFrom(all, i) ==
    IF i > Len(all) THEN << >>
    ELSE ( IF all[i].max_input_channels > 0
           THEN << [index |-> i - 1, dev |-> all[i]] >> ELSE << >> )
         \o InputDevicesFrom(all, i + 1)

InputDevices(all) == InputDevicesFrom(all, 1)

\* a list left as it is, repetitions included
KeepAll(q) == q

\* line 283: de-duplicate while preserving order
RECURSIVE Dedup(_)
Dedup(q) ==
    IF q = << >> THEN << >>
    ELSE LET front == Dedup(SubSeq(q, 1, Len(q) - 1))
             x     == q[Len(q)]
         IN  IF \E k \in DOMAIN front : front[k] = x THEN front
             ELSE Append(front, x)

\* lines 264-267: preferred rate first, when given
Rates(preferred_rate) ==
    ( IF preferred_rate # 0 THEN << preferred_rate >> ELSE << >> ) \o FallbackRates

\* lines 274-283: the device's default rate first, when it has one
CandidateRates(dev, preferred_rate) ==
    Dedup(( IF dev.default_samplerate # 0 THEN << dev.default_samplerate >> ELSE << >> )
          \o Rates(preferred_rate))

\* lines 285-288
ChannelCandidates(dev) ==
    << 1 >> \o ( IF dev.max_input_channels >= 2 THEN << 2 >> ELSE << >> )

(***************************************************************************)
(* The inputs the model draws                                               *)
(***************************************************************************)
\* the longest capture window, in 1/SecondsDen of a second
MaxSeconds == 3

\* the most devices sd.query_devices() lists
MaxDevices == 2

\* the most segments the speech-to-text engine returns for one recording
MaxSegments == 2

\* new turns are explored until the notes file holds this many lines
MaxNotes == 1

\* --seconds, in 1/SecondsDen of a second (a negative value is accepted by
\* the argument parser too)
Durations == (-1)..MaxSeconds

\* line 457: the default of --ptt-rate
DefaultRate == 48000

\* --ptt-rate: absent (0), the default, a rate outside the fallbacks
PreferredRates == { 0, DefaultRate, 8000 }

\* the devices of a host: stereo and mono inputs with and without a
\* default rate, and an output-only device
StereoDevice == [default_samplerate |-> 44100, max_input_channels |-> 2]

MonoDevice == [default_samplerate |-> 8000, max_input_channels |-> 1]

PlainDevice == [default_samplerate |-> 0, max_input_channels |-> 1]

OutputDevice == [default_samplerate |-> 48000, max_input_channels |-> 0]

DeviceKinds == { StereoDevice, MonoDevice, PlainDevice, OutputDevice }

\* what sd.query_devices() can return
HostDeviceLists == UNION { [1..n -> DeviceKinds] : n \in 0..MaxDevices }

\* the hosts the session loops are run on
SessionHosts == { << >>, << OutputDevice >>, << OutputDevice, PlainDevice >> }

\* the texts of the segments the speech-to-text engine returns in a session
SessionSegments ==
    {
      << >>,  \* ''
      << " "," " >>,  \* '  '
      << " ","Q","u","i","t"," " >>,  \* ' Quit '
      << "e","x","i","t","s" >>,  \* 'exits'
      << "o","p","e","n"," ","c","h","r","o","m","e" >>,  \* 'open chrome'
      << "s","e","a","r","c","h"," ","c","a","t","s" >>,  \* 'search cats'
      << "n","o","t","e"," ","b","u","y"," ","m","i","l","k" >>,  \* 'note buy milk'
      << "t","i","m","e","r"," ","f","o","r"," ","2"," ","m","i","n","u","t","e","s" >>,  \* 'timer for 2 minutes'
      << "h","e","l","p" >>  \* 'help'
    }

\* more texts, for the calls of handle_command on its own
SegmentTexts ==
    SessionSegments \cup
    {
      << "s","t","o","p"," ","a","s","s","i","s","t","a","n","t" >>,  \* 'stop assistant'
      << "G","o","o","d","b","y","e","." >>,  \* 'Goodbye.'
      << "s","t","a","r","t"," ","f","i","r","e","f","o","x" >>,  \* 'start firefox'
      << "s","e","t"," ","a"," ","t","i","m","e","r"," ","f","o","r"," ","3" >>,  \* 'set a timer for 3'
      << "t","i","m","e","r"," ","f","o","r"," ","1"," ","h","o","u","r" >>,  \* 'timer for 1 hour'
      << "o","p","e","n"," ","e","x","a","m","p","l","e",".","c","o","m","/","x" >>,  \* 'open example.com/x'
      << "w","h","a","t"," ","t","i","m","e"," ","i","s"," ","i","t" >>,  \* 'what time is it'
      << "d","a","y" >>,  \* 'day'
      << "t","o","d","a","y" >>,  \* 'today'
      << "t","i","m","e","r"," ","f","o","r"," ","5"," ","s","e","c","o","n","d","s" >>,  \* 'timer for 5 seconds'
      << "o","p","e","n"," ","c","h","r","o","m","e"," ","t","h","e","n"," ","s","e","a","r","c","h"," ","t","h","e"," ","t","i","m","e" >>  \* 'open chrome then search the time'
    }

SessionTranscripts == UNION { [1..n -> SessionSegments] : n \in 0..MaxSegments }

Transcripts == UNION { [1..n -> SegmentTexts] : n \in 0..MaxSegments }

\* the lines typed at the push-to-talk prompt
InputLines ==
    {
      << >>,  \* ''
      << "q" >>,  \* 'q'
      << " ","Q","u","i","t"," " >>,  \* ' Quit '
      << "e","x","i","t" >>,  \* 'exit'
      << "x" >>  \* 'x'
    }

\* the keys open_app is called with on its own
AppKeys ==
    {
      << "c","h","r","o","m","e" >>,  \* 'chrome'
      << " ","C","h","r","o","m","e"," " >>,  \* ' Chrome '
      << "V","S","C","o","d","e" >>,  \* 'VSCode'
      << "f","i","r","e","f","o","x" >>,  \* 'firefox'
      << "c","a","l","c" >>,  \* 'calc'
      << >>  \* ''
    }

\* the values of the PICOVOICE_ACCESS_KEY environment variable
AccessKeys == { << >>, << " " >>, << "k" >> }

\* how the outside world answers the actions of one command
Envs == [popenOk : BOOLEAN, browserOk : BOOLEAN, writeOk : BOOLEAN]

\* pvporcupine: frame_length and the recorder's sample_rate
FrameLength == 512

RecorderRate == 16000

(***************************************************************************)
(* The state of the program                                                 *)
(***************************************************************************)
VARIABLES
    pc,           \* where the program is: main, the prompt, record_ptt, ...
    mode,         \* --mode
    sysPlatform,  \* sys.platform
    seconds,      \* --seconds, in 1/SecondsDen of a second
    preferred,    \* --ptt-rate
    accessKey,    \* the PICOVOICE_ACCESS_KEY environment variable
    devs,         \* record_ptt: what sd.query_devices() returned
    di, ri, ci,   \* record_ptt: the device, rate and channel count being tried
    frames,       \* record_ptt: frames of the current attempt
    idx,          \* record_ptt: frames read so far in the current attempt
    lastErr,      \* record_ptt: last_err
    attempts,     \* record_ptt: the candidates tried so far, in order
    buf,          \* record_command_16k: len(buf)
    wav,          \* the temporary WAV file of the turn
    rmAttempts,   \* how often os.remove was called on it
    cmd,          \* the transcribed text of the turn
    handled,      \* how often handle_command was called in the turn
    rule,         \* the rule the last handle_command took
    keep,         \* what the last handle_command returned
    spoken,       \* the SPEAKER.say calls since the last trigger
    launched,     \* the subprocess.Popen calls since the last trigger
    browsed,      \* the webbrowser.open calls since the last trigger
    slept,        \* the time.sleep calls since the last trigger
    notes,        \* the lines of the notes file
    porcupine,    \* the wake-word detector: none, created, deleted
    recorder,     \* the PvRecorder: none, created, started, deleted
    closeLog,     \* the release steps WakeWordMode.close attempted
    frameTo,      \* where the last frame read from the PvRecorder went
    stop,         \* whether the stop signal was raised from outside
    world,        \* how the audio drivers of the host answer
    picked,       \* the device lists and candidates record_ptt returned with
    err           \* the exception that ended the program, if any

cfgVars == << mode, sysPlatform, seconds, preferred, accessKey >>

recVars == << devs, di, ri, ci, frames, idx, lastErr, attempts >>

turnVars == << cmd, handled, rule, keep, spoken, launched, browsed, slept >>

wakeVars == << porcupine, recorder, closeLog >>

\* what the calls of the program do not write
outsideVars == << stop, world, picked >>

vars == << pc, cfgVars, outsideVars, recVars, buf, wav, rmAttempts, turnVars, notes,
           wakeVars, frameTo, err >>

\* drivers that may answer any attempt either way
AnyWorld == [free |-> TRUE, deadDevices |-> {}, badRates |-> {}, monoReads |-> TRUE]

\* sd.InputStream(...) for a candidate: the ways it can end (TRUE: opened)
OpenOutcomes(cand) ==
    IF world.free THEN BOOLEAN
    ELSE { cand.device \notin world.deadDevices /\ cand.rate \notin world.badRates }

\* stream.read(n) for a candidate: the ways it can end (TRUE: a block)
ReadOutcomes(cand) ==
    IF world.free THEN BOOLEAN ELSE { cand.channels = 2 \/ world.monoReads }

NoCandidate == [device |-> -1, rate |-> 0, channels |-> 0]

NoError == [type |-> "none", kind |-> "none", cand |-> NoCandidate]

NoWav == [state |-> "none", samples |-> 0, filled |-> 0, rate |-> 0, channels |-> 0]

\* an exception of the given type; kind and cand tell what failed
Error(type, kind, cand) == [type |-> type, kind |-> kind, cand |-> cand]

\* the loop's next wait for a trigger
Armed == IF mode = "ptt" THEN "ptt_input" ELSE "wake_listen"

\* WakeWordMode.close(): stop and delete the recorder, delete the detector;
\* each step is attempted whatever the one before did
Close ==
    /\ closeLog' = closeLog \o << "recorder.stop", "recorder.delete", "porcupine.delete" >>
    /\ recorder' = "deleted"
    /\ porcupine' = "deleted"

\* run() is left: by return (to = "done") or by an exception (to =
\* "crashed"); WakeWordMode.run closes in its finally clause
LeaveRun(to, e) ==
    /\ pc' = to
    /\ err' = e
    /\ IF mode = "wake" THEN Close ELSE UNCHANGED wakeVars

\* the locals of record_ptt and record_command_16k before the call
FreshRecorder ==
    /\ devs' = << >>
    /\ di' = 1 /\ ri' = 1 /\ ci' = 1
    /\ frames' = 0
    /\ idx' = 0
    /\ lastErr' = NoError
    /\ attempts' = << >>
    /\ buf' = 0

\* a new turn starts: nothing heard, said or done yet
NewTurn(said) ==
    /\ cmd' = << >>
    /\ handled' = 0
    /\ rule' = 0
    /\ keep' = TRUE
    /\ spoken' = said
    /\ launched' = << >>
    /\ browsed' = << >>
    /\ slept' = << >>
    /\ wav' = NoWav
    /\ rmAttempts' = 0

InitCommon ==
    /\ devs = << >>
    /\ di = 1 /\ ri = 1 /\ ci = 1
    /\ frames = 0
    /\ idx = 0
    /\ lastErr = NoError
    /\ attempts = << >>
    /\ buf = 0
    /\ wav = NoWav
    /\ rmAttempts = 0
    /\ cmd = << >>
    /\ handled = 0
    /\ rule = 0
    /\ keep = TRUE
    /\ spoken = << >>
    /\ launched = << >>
    /\ browsed = << >>
    /\ slept = << >>
    /\ closeLog = << >>
    /\ frameTo = "none"
    /\ stop = FALSE
    /\ picked = { }
    /\ err = NoError

\* the program starts in main() with its arguments parsed: the longest
\* capture window and the default rate; the access key is read in wake mode
Init ==
    /\ InitCommon
    /\ world = AnyWorld
    /\ notes = << >>
    /\ sysPlatform \in SysPlatforms
    /\ pc = "main"
    /\ mode \in { "ptt", "wake" }
    /\ seconds = MaxSeconds
    /\ preferred = DefaultRate
    /\ accessKey \in IF mode = "wake" THEN AccessKeys ELSE { << >> }
    /\ porcupine = "none"
    /\ recorder = "none"

(***************************************************************************)
(* main() and the push-to-talk loop                                         *)
(***************************************************************************)
\* main() with --mode ptt, then PushToTalkMode.run up to the first prompt
MainPtt ==
    /\ pc = "main"
    /\ mode = "ptt"
    /\ spoken' = << Say("(push-to-talk) ready. Press ENTER to speak. Type 'q' + ENTER to quit.", << >>, 0) >>
    /\ pc' = "ptt_input"
    /\ UNCHANGED << cfgVars, outsideVars, frameTo, recVars, buf, wav, rmAttempts, cmd, handled, rule, keep,
                    launched, browsed, slept, notes, wakeVars, err >>

\* line 355: s in ("q", "quit", "exit") after strip and lower
IsStopLine(line) == Lower(Strip(line)) \in { << "q" >>, W_quit, W_exit }

\* lines 354-359: a line is typed at the prompt; a stop word ends the
\* session, anything else starts a recording
PttInput ==
    /\ pc = "ptt_input"
    /\ \E line \in InputLines :
          IF IsStopLine(line)
          THEN /\ spoken' = Append(spoken, Say("Goodbye.", << >>, 0))
               /\ LeaveRun("done", NoError)
               /\ UNCHANGED << wav, rmAttempts, cmd, handled, rule, keep,
                               launched, browsed, slept >>
          ELSE /\ Len(notes) < MaxNotes
               /\ NewTurn(<< >>)
               /\ pc' = "rec_start"
               /\ UNCHANGED << wakeVars, err >>
    /\ UNCHANGED << cfgVars, outsideVars, frameTo, recVars, buf, notes >>

(***************************************************************************)
(* record_ptt                                                               *)
(***************************************************************************)
\* the candidate at position (d, r, c) of the three nested loops
Candidate(all, pref, d, r, c) ==
    LET in == InputDevices(all)[d]
    IN  [device   |-> in.index,
         rate     |-> CandidateRates(in.dev, pref)[r],
         channels |-> ChannelCandidates(in.dev)[c]]

\* a search that ends with the candidates of the device it is at
NextPositionOneDevice(all, pref, d, r, c) ==
    LET in == InputDevices(all)
    IN  IF c < Len(ChannelCandidates(in[d].dev)) THEN << d, r, c + 1 >>
        ELSE IF r < Len(CandidateRates(in[d].dev, pref)) THEN << d, r + 1, 1 >>
        ELSE << >>

\* the position after (d, r, c) in the loops of lines 272, 290 and 291, or
\* << >> when (d, r, c) is the last one
NextPosition(all, pref, d, r, c) ==
    LET in == InputDevices(all)
    IN  IF c < Len(ChannelCandidates(in[d].dev)) THEN << d, r, c + 1 >>
        ELSE IF r < Len(CandidateRates(in[d].dev, pref)) THEN << d, r + 1, 1 >>
        ELSE IF d < Len(in) THEN << d + 1, 1, 1 >>
        ELSE << >>

\* line 302: n = min(block, frames - idx)
BlockLen(total, done) == Min({ BlockSize, total - done })

\* a record_ptt that remembers where its last call on the same devices
\* ended and goes on with the candidate after it
RecStartOnResuming(hosts) ==
    /\ pc = "rec_start"
    /\ \E all \in hosts :
          /\ devs' = all
          /\ IF InputDevices(all) = << >>
             THEN /\ LeaveRun("crashed", Error("RuntimeError", "no input devices", NoCandidate))
                  /\ UNCHANGED << di, ri, ci, lastErr, attempts >>
             ELSE LET next == IF all = devs /\ attempts # << >>
                              THEN NextPosition(devs, preferred, di, ri, ci)
                              ELSE << >>
                  IN  /\ pc' = "rec_open"
                      /\ di' = IF next = << >> THEN 1 ELSE next[1]
                      /\ ri' = IF next = << >> THEN 1 ELSE next[2]
                      /\ ci' = IF next = << >> THEN 1 ELSE next[3]
                      /\ lastErr' = NoError
                      /\ attempts' = << >>
                      /\ UNCHANGED << wakeVars, err >>
    /\ UNCHANGED << cfgVars, outsideVars, frameTo, frames, idx, buf, wav, rmAttempts, turnVars, notes >>

\* lines 259-261 and 269: the devices are listed; none is fatal
RecStartOn(hosts) ==
    /\ pc = "rec_start"
    /\ \E all \in hosts :
          /\ devs' = all
          /\ IF InputDevices(all) = << >>
             THEN /\ LeaveRun("crashed", Error("RuntimeError", "no input devices", NoCandidate))
                  /\ UNCHANGED << di, ri, ci, lastErr, attempts >>
             ELSE /\ pc' = "rec_open"
                  /\ di' = 1 /\ ri' = 1 /\ ci' = 1
                  /\ lastErr' = NoError
                  /\ attempts' = << >>
                  /\ UNCHANGED << wakeVars, err >>
    /\ UNCHANGED << cfgVars, outsideVars, frameTo, frames, idx, buf, wav, rmAttempts, turnVars, notes >>

RecStart == RecStartOn(SessionHosts)

\* lines 316-327: the attempt failed; the next candidate is tried, and when
\* there is none the RuntimeError with the last error leaves record_ptt
RecFail(kind) ==
    LET cand == Candidate(devs, preferred, di, ri, ci)
        next == NextPosition(devs, preferred, di, ri, ci)
    IN  /\ lastErr' = Error("Exception", kind, cand)
        /\ IF next = << >>
           THEN /\ LeaveRun("crashed", Error("RuntimeError", kind, cand))
                /\ UNCHANGED << di, ri, ci >>
           ELSE /\ pc' = "rec_open"
                /\ di' = next[1] /\ ri' = next[2] /\ ci' = next[3]
                /\ UNCHANGED << wakeVars, err >>

\* lines 293-298: the buffer is allocated (a negative size raises) and the
\* stream is opened
RecOpen ==
    /\ pc = "rec_open"
    /\ attempts' = Append(attempts, Candidate(devs, preferred, di, ri, ci))
    /\ frames' = Frames(seconds, Candidate(devs, preferred, di, ri, ci).rate)
    /\ idx' = 0
    /\ IF frames' < 0 THEN RecFail("allocate")
       ELSE \E ok \in OpenOutcomes(Candidate(devs, preferred, di, ri, ci)) :
               IF ok
               THEN /\ pc' = "rec_read"
                    /\ UNCHANGED << di, ri, ci, lastErr, wakeVars, err >>
               ELSE RecFail("open")
    /\ UNCHANGED << cfgVars, outsideVars, frameTo, devs, buf, wav, rmAttempts, turnVars, notes >>

\* a read whose failure leaves record_ptt at once, whatever candidates
\* are left
RecReadFatal ==
    /\ pc = "rec_read"
    /\ idx < frames
    /\ \E ok \in ReadOutcomes(Candidate(devs, preferred, di, ri, ci)) :
          IF ok
          THEN /\ idx' = idx + BlockLen(frames, idx)
               /\ UNCHANGED << pc, di, ri, ci, lastErr, wakeVars, err >>
          ELSE /\ lastErr' = Error("Exception", "read", Candidate(devs, preferred, di, ri, ci))
               /\ LeaveRun("crashed", Error("RuntimeError", "read",
                                            Candidate(devs, preferred, di, ri, ci)))
               /\ UNCHANGED << di, ri, ci, idx >>
    /\ UNCHANGED << cfgVars, outsideVars, frameTo, devs, frames, attempts, buf, wav, rmAttempts, turnVars, notes >>

\* lines 301-305: one block is read
RecRead ==
    /\ pc = "rec_read"
    /\ idx < frames
    /\ \E ok \in ReadOutcomes(Candidate(devs, preferred, di, ri, ci)) :
          IF ok
          THEN /\ idx' = idx + BlockLen(frames, idx)
               /\ UNCHANGED << pc, di, ri, ci, lastErr, wakeVars, err >>
          ELSE /\ RecFail("read")
               /\ UNCHANGED idx
    /\ UNCHANGED << cfgVars, outsideVars, frameTo, devs, frames, attempts, buf, wav, rmAttempts, turnVars, notes >>

\* lines 307-314: channel 0 is written to a temporary WAV file, whose path
\* is returned; mkstemp and the write may fail
RecWrite ==
    /\ pc = "rec_read"
    /\ idx >= frames
    /\ \E ok \in IF world.free THEN BOOLEAN ELSE { TRUE } :
          IF ok
          THEN /\ wav' = [state |-> "file", samples |-> frames, filled |-> idx,
                          rate |-> Candidate(devs, preferred, di, ri, ci).rate,
                          channels |-> 1]
               /\ pc' = "transcribe"
               /\ UNCHANGED << di, ri, ci, lastErr, wakeVars, err >>
          ELSE /\ RecFail("write")
               /\ UNCHANGED wav
    /\ UNCHANGED << cfgVars, outsideVars, frameTo, devs, frames, idx, attempts, buf, rmAttempts, turnVars, notes >>

(***************************************************************************)
(* Transcription and dispatch, shared by the two loops                      *)
(***************************************************************************)
\* os.remove(wav_path) inside try/except, after which the loop holds no
\* recording any more: the file is gone, or stays behind
Remove(file, removeOk) ==
    [NoWav EXCEPT !.state = IF removeOk THEN "removed" ELSE "remove failed"]

\* lines 360-370 and 429-439: transcribe returns; the file is removed in
\* the finally clause; an empty text re-arms the trigger
TranscribeReturns ==
    /\ pc = "transcribe"
    /\ \E segments \in SessionTranscripts, removeOk \in BOOLEAN :
          /\ cmd' = Transcribe(segments)
          /\ wav' = Remove(wav, removeOk)
          /\ rmAttempts' = rmAttempts + 1
          /\ IF cmd' = << >>
             THEN /\ spoken' = Append(spoken, Say("I didn't catch that.", << >>, 0))
                  /\ pc' = Armed
             ELSE /\ pc' = "dispatch"
                  /\ UNCHANGED spoken
    /\ FreshRecorder
    /\ UNCHANGED << cfgVars, outsideVars, frameTo, handled, rule, keep, launched, browsed, slept, notes,
                    wakeVars, err >>

\* a transcribe that raises past a loop without a finally clause: the file
\* stays and no removal is attempted
TranscribeRaisesNoCleanup ==
    /\ pc = "transcribe"
    /\ LeaveRun("crashed", Error("Exception", "transcribe", NoCandidate))
    /\ FreshRecorder
    /\ UNCHANGED << cfgVars, outsideVars, frameTo, wav, rmAttempts, turnVars, notes >>

\* lines 360-366 and 429-435: transcribe raises; the file is removed in the
\* finally clause and the exception leaves run()
TranscribeRaises ==
    /\ pc = "transcribe"
    /\ \E removeOk \in BOOLEAN :
          /\ wav' = Remove(wav, removeOk)
          /\ rmAttempts' = rmAttempts + 1
    /\ LeaveRun("crashed", Error("Exception", "transcribe", NoCandidate))
    /\ FreshRecorder
    /\ UNCHANGED << cfgVars, outsideVars, frameTo, turnVars, notes >>

\* a timer that is left to run in the background: handle_command returns
\* without having slept
ApplyTimerInBackground(e) ==
    /\ handled' = handled + 1
    /\ rule' = e.rule
    /\ keep' = e.keep
    /\ spoken' = spoken \o e.say
    /\ launched' = launched \o e.launch
    /\ browsed' = browsed \o e.browse
    /\ slept' = slept
    /\ notes' = notes \o e.note

\* a notes file that save_note opens for writing, not for appending
ApplyOverwriting(e) ==
    /\ handled' = handled + 1
    /\ rule' = e.rule
    /\ keep' = e.keep
    /\ spoken' = spoken \o e.say
    /\ launched' = launched \o e.launch
    /\ browsed' = browsed \o e.browse
    /\ slept' = slept \o e.sleep
    /\ notes' = IF e.note = << >> THEN notes ELSE e.note

\* the calls one handle_command made are added to those of the turn
Apply(e) ==
    /\ handled' = handled + 1
    /\ rule' = e.rule
    /\ keep' = e.keep
    /\ spoken' = spoken \o e.say
    /\ launched' = launched \o e.launch
    /\ browsed' = browsed \o e.browse
    /\ slept' = slept \o e.sleep
    /\ notes' = notes \o e.note

\* lines 372-375 and 441-444: handle_command(cmd); False ends the session
Dispatch ==
    /\ pc = "dispatch"
    /\ \E req \in { Route(cmd) } :
          \E env \in Envs :
             \E e \in { Execute(req, sysPlatform, env) } :
                /\ Apply(e)
                /\ IF e.raised # "none"
                   THEN LeaveRun("crashed", Error(e.raised, "action", NoCandidate))
                   ELSE IF e.keep
                   THEN pc' = Armed /\ UNCHANGED << wakeVars, err >>
                   ELSE LeaveRun("done", NoError)
    /\ UNCHANGED << cfgVars, outsideVars, frameTo, recVars, buf, wav, rmAttempts, cmd >>

(***************************************************************************)
(* The wake-word loop                                                       *)
(***************************************************************************)
\* lines 472-477: wake mode without an access key
MainWakeNoKey ==
    /\ pc = "main"
    /\ mode = "wake"
    /\ Strip(accessKey) = << >>
    /\ pc' = "crashed"
    /\ err' = Error("RuntimeError", "missing access key", NoCandidate)
    /\ UNCHANGED << cfgVars, outsideVars, frameTo, recVars, buf, wav, rmAttempts, turnVars, notes, wakeVars >>

\* lines 479-485 and 379-392, 422: the detector and the recorder are
\* created and the recorder started, each of which can fail; then run()
\* announces itself
MainWake ==
    /\ pc = "main"
    /\ mode = "wake"
    /\ Strip(accessKey) # << >>
    /\ \E step \in { "create", "recorder", "start", "run" } :
          /\ porcupine' = IF step = "create" THEN "none" ELSE "created"
          /\ recorder' = CASE step = "create" -> "none"
                           [] step = "recorder" -> "none"
                           [] step = "start" -> "created"
                           [] OTHER -> "started"
          /\ IF step = "run"
             THEN /\ pc' = "wake_listen"
                  /\ spoken' = << Say("(wake mode) ready. Say:", << >>, 0) >>
                  /\ UNCHANGED err
             ELSE /\ pc' = "crashed"
                  /\ err' = Error("Exception", step, NoCandidate)
                  /\ UNCHANGED spoken
    /\ UNCHANGED << cfgVars, outsideVars, frameTo, recVars, buf, wav, rmAttempts, cmd, handled, rule, keep,
                    launched, browsed, slept, notes, closeLog >>

\* lines 425-428: one frame is read and given to the detector; a value
\* >= 0 starts a turn with "Yes?"
WakeFrame ==
    /\ pc = "wake_listen"
    /\ \E outcome \in { "read raises", "process raises", "negative", "detected" } :
          CASE outcome = "negative" ->
                 /\ frameTo' = "detector"
                 /\ UNCHANGED << pc, wav, rmAttempts, turnVars, wakeVars, err >>
            [] outcome = "detected" ->
                 /\ Len(notes) < MaxNotes
                 /\ frameTo' = "detector"
                 /\ NewTurn(<< Say("Yes?", << >>, 0) >>)
                 /\ pc' = "wake_capture"
                 /\ UNCHANGED << wakeVars, err >>
            [] OTHER ->
                 /\ frameTo' = (IF outcome = "process raises" THEN "detector" ELSE frameTo)
                 /\ LeaveRun("crashed", Error("Exception", outcome, NoCandidate))
                 /\ UNCHANGED << wav, rmAttempts, turnVars >>
    /\ UNCHANGED << cfgVars, outsideVars, recVars, buf, notes >>

\* a capture that also gives each frame it reads to the detector
WakeCapReadDetecting ==
    /\ pc = "wake_capture"
    /\ buf < Frames(seconds, RecorderRate)
    /\ \E ok \in BOOLEAN :
          IF ok
          THEN /\ buf' = buf + FrameLength
               /\ frameTo' = "detector"
               /\ UNCHANGED << pc, wakeVars, err >>
          ELSE /\ LeaveRun("crashed", Error("Exception", "read", NoCandidate))
               /\ UNCHANGED << buf, frameTo >>
    /\ UNCHANGED << cfgVars, outsideVars, recVars, wav, rmAttempts, turnVars, notes >>

\* lines 411-412: frames are read until the buffer holds total_samples
WakeCapRead ==
    /\ pc = "wake_capture"
    /\ buf < Frames(seconds, RecorderRate)
    /\ \E ok \in BOOLEAN :
          IF ok
          THEN /\ buf' = buf + FrameLength
               /\ frameTo' = "buffer"
               /\ UNCHANGED << pc, wakeVars, err >>
          ELSE /\ LeaveRun("crashed", Error("Exception", "read", NoCandidate))
               /\ UNCHANGED << buf, frameTo >>
    /\ UNCHANGED << cfgVars, outsideVars, recVars, wav, rmAttempts, turnVars, notes >>

\* len(buf[:total]) of a list of n items
SliceLen(n, total) == IF total >= 0 THEN Min({ n, total }) ELSE Max({ 0, n + total })

\* lines 414-419: the first total_samples samples are written to a
\* temporary WAV file, whose path is returned
WakeCapWrite ==
    /\ pc = "wake_capture"
    /\ buf >= Frames(seconds, RecorderRate)
    /\ \E ok \in BOOLEAN :
          IF ok
          THEN /\ wav' = [state |-> "file",
                          samples |-> SliceLen(buf, Frames(seconds, RecorderRate)),
                          filled |-> buf, rate |-> RecorderRate, channels |-> 1]
               /\ pc' = "transcribe"
               /\ UNCHANGED << wakeVars, err >>
          ELSE /\ LeaveRun("crashed", Error("Exception", "write", NoCandidate))
               /\ UNCHANGED wav
    /\ UNCHANGED << cfgVars, outsideVars, frameTo, recVars, buf, rmAttempts, turnVars, notes >>

(***************************************************************************)
(* The program                                                              *)
(***************************************************************************)
Next ==
    \/ MainPtt
    \/ PttInput
    \/ RecStart
    \/ RecOpen
    \/ RecRead
    \/ RecWrite
    \/ TranscribeReturns
    \/ TranscribeRaises
    \/ Dispatch
    \/ MainWakeNoKey
    \/ MainWake
    \/ WakeFrame
    \/ WakeCapRead
    \/ WakeCapWrite

\* the program, from main() on
Spec == Init /\ [][Next]_vars

(***************************************************************************)
(* The program and a stop signal from outside. The program installs no      *)
(* handler and keeps no flag: the interrupt reaches it as Python's          *)
(* KeyboardInterrupt, raised in the call the loop is in. No except clause   *)
(* of the program catches it (they name Exception); the finally clauses     *)
(* run                                                                      *)
(***************************************************************************)
Interrupt ==
    /\ ~stop
    /\ pc \notin { "main", "done", "crashed" }
    /\ stop' = TRUE
    /\ LeaveRun("crashed", Error("KeyboardInterrupt", "stop signal", NoCandidate))
    /\ IF pc = "transcribe"
       THEN \E removeOk \in BOOLEAN :
               /\ wav' = Remove(wav, removeOk)
               /\ rmAttempts' = rmAttempts + 1
       ELSE UNCHANGED << wav, rmAttempts >>
    /\ UNCHANGED << cfgVars, world, picked, frameTo, recVars, buf, turnVars, notes >>

SpecStop == Init /\ [][Next \/ Interrupt]_vars

(***************************************************************************)
(* The recorders on their own: record_ptt and record_command_16k are        *)
(* called once, with any capture window, preferred rate and host            *)
(***************************************************************************)
\* the recorders do not look at sys.platform
InitRec ==
    /\ InitCommon
    /\ world = AnyWorld
    /\ notes = << >>
    /\ sysPlatform = "linux"
    /\ pc \in { "rec_start", "wake_capture" }
    /\ mode = IF pc = "rec_start" THEN "ptt" ELSE "wake"
    /\ seconds \in Durations
    /\ preferred \in IF mode = "ptt" THEN PreferredRates ELSE { DefaultRate }
    /\ accessKey = IF mode = "ptt" THEN << >> ELSE << "k" >>
    /\ porcupine = IF mode = "ptt" THEN "none" ELSE "created"
    /\ recorder = IF mode = "ptt" THEN "none" ELSE "started"

RecStartAny == RecStartOn(HostDeviceLists)

NextRec ==
    \/ RecStartAny
    \/ RecOpen
    \/ RecRead
    \/ RecWrite
    \/ WakeCapRead
    \/ WakeCapWrite

SpecRec == InitRec /\ [][NextRec]_vars

(***************************************************************************)
(* The actions on their own: handle_command and open_app are called once,   *)
(* with any text and key                                                    *)
(***************************************************************************)
InitCmd ==
    /\ InitCommon
    /\ world = AnyWorld
    /\ notes = << >>
    /\ sysPlatform \in SysPlatforms
    /\ pc = "call"
    /\ mode = "ptt"
    /\ seconds = MaxSeconds
    /\ preferred = DefaultRate
    /\ accessKey = << >>
    /\ porcupine = "none"
    /\ recorder = "none"

\* handle_command(text) for a transcribed, non-empty text
CallHandleCommand ==
    /\ pc = "call"
    /\ \E segments \in Transcripts :
          /\ Transcribe(segments) # << >>
          /\ cmd' = Transcribe(segments)
          /\ \E req \in { Route(cmd') } :
                \E env \in Envs :
                   \E e \in { Execute(req, sysPlatform, env) } :
                      /\ Apply(e)
                      /\ pc' = IF e.raised = "none" THEN "returned" ELSE "raised"
                      /\ err' = IF e.raised = "none" THEN NoError
                                ELSE Error(e.raised, "action", NoCandidate)
    /\ UNCHANGED << cfgVars, outsideVars, frameTo, recVars, buf, wav, rmAttempts, wakeVars >>

\* open_app(app_key)
CallOpenApp ==
    /\ pc = "call"
    /\ \E key \in AppKeys, popenOk \in BOOLEAN :
          \E r \in { OpenApp(key, sysPlatform, popenOk) } :
             /\ cmd' = key
             /\ launched' = r.calls
             /\ pc' = IF r.raised = "none" THEN "returned" ELSE "raised"
             /\ err' = IF r.raised = "none" THEN NoError
                       ELSE Error(r.raised, "open_app", NoCandidate)
    /\ UNCHANGED << cfgVars, outsideVars, frameTo, recVars, buf, wav, rmAttempts, handled, rule, keep,
                    spoken, browsed, slept, notes, wakeVars >>

NextCmd ==
    \/ CallHandleCommand
    \/ CallOpenApp

SpecCmd == InitCmd /\ [][NextCmd]_vars

\* the same calls on a host whose notes file may hold a line of an earlier
\* run of the program
InitNotes ==
    /\ InitCommon
    /\ world = AnyWorld
    /\ notes \in { << >>, << W_note >> }
    /\ sysPlatform \in SysPlatforms
    /\ pc = "call"
    /\ mode = "ptt"
    /\ seconds = MaxSeconds
    /\ preferred = DefaultRate
    /\ accessKey = << >>
    /\ porcupine = "none"
    /\ recorder = "none"

SpecNotes == InitNotes /\ [][NextCmd]_vars

(***************************************************************************)
(* record_ptt called again and again, as the push-to-talk loop does once    *)
(* per turn, on a host whose drivers answer a candidate the same way each   *)
(* time; the device list may change between the calls                       *)
(***************************************************************************)
\* hosts whose drivers refuse some devices and rates, and may fail to
\* read from a stream opened with one channel
Worlds ==
    { [free |-> FALSE, deadDevices |-> D, badRates |-> B, monoReads |-> m] :
         D \in SUBSET { 0 }, B \in SUBSET { 44100, 48000 }, m \in BOOLEAN }

InitTwice ==
    /\ InitCommon
    /\ world \in Worlds
    /\ notes = << >>
    /\ sysPlatform = "linux"
    /\ pc = "rec_start"
    /\ mode = "ptt"
    /\ seconds = MaxSeconds
    /\ preferred \in PreferredRates
    /\ accessKey = << >>
    /\ porcupine = "none"
    /\ recorder = "none"

\* lines 353-359: record_ptt returned; the loop comes round and calls it
\* again. What the call returned with is noted; the locals of the call that
\* is over are left as they were
RecordAgain ==
    /\ pc = "transcribe"
    /\ picked' = picked \cup { [devs |-> devs, cand |-> attempts[Len(attempts)]] }
    /\ pc' = "rec_start"
    /\ wav' = NoWav
    /\ UNCHANGED << cfgVars, stop, world, frameTo, recVars, buf, rmAttempts, turnVars, notes,
                    wakeVars, err >>

\* sd.query_devices() may return another list from one call to the next
NextTwice ==
    \/ RecStartOn({ << >>, << StereoDevice >>, << MonoDevice, StereoDevice >>,
                    << OutputDevice, PlainDevice >> })
    \/ RecOpen
    \/ RecRead
    \/ RecWrite
    \/ RecordAgain

SpecTwice == InitTwice /\ [][NextTwice]_vars

(***************************************************************************)
(* Properties                                                              *)
(***************************************************************************)
\* C1: whenever handle_command is called with a text that holds one of the
\* termination words as a whole word, in any case and with any text around
\* it, the call takes rule 1: it says "Goodbye." and nothing else, starts
\* no process, opens no page, writes no note, does not sleep, returns
\* False, and the session ends (no further trigger is waited for).
C1_TerminationWins ==
    [][ (pc = "dispatch" /\ WordSearch(Lower(cmd), TermWords))
        => /\ rule' = 1
           /\ keep' = FALSE
           /\ handled' = handled + 1
           /\ spoken' = Append(spoken, Say("Goodbye.", << >>, 0))
           /\ launched' = launched
           /\ browsed' = browsed
           /\ slept' = slept
           /\ notes' = notes
           /\ pc' = "done"
           /\ err' = NoError ]_vars

\* a session ended by a termination word in mixed case, in a text that also
\* matches the pattern of rule 5
C1_Witness ==
    /\ pc = "done"
    /\ handled = 1
    /\ rule = 1
    /\ ~keep
    /\ cmd # Lower(cmd)
    /\ MatchApp(Lower(cmd)).ok

\* whether the pattern of rule k (1..10) matches the stripped, lowered text
RuleMatches(low, k) ==
    CASE k = 1 -> WordSearch(low, TermWords)
      [] k = 2 -> WordSearch(low, HelpWords)
      [] k = 3 -> WordSearch(low, TimeWords)
      [] k = 4 -> WordSearch(low, DateWords)
      [] k = 5 -> MatchApp(low).ok
      [] k = 6 -> MatchWebsite(low).ok
      [] k = 7 -> MatchSearch(low).ok /\ Strip(MatchSearch(low).q) # << >>
      [] k = 8 -> MatchNote(low).ok /\ Strip(MatchNote(low).text) # << >>
      [] k = 9 -> MatchTimer(low).ok
      [] OTHER -> TRUE

\* the wording of the first thing rule k says when its action succeeds
FirstSay(k) ==
    CASE k = 1 -> "Goodbye."
      [] k = 2 -> "Try: open chrome, search something, note your text, timer for 10 seconds, or ask time."
      [] k = 3 -> "The time is"
      [] k = 4 -> "Today is"
      [] k = 5 -> "Opening"
      [] k = 6 -> "Opening"
      [] k = 7 -> "Searching for"
      [] k = 8 -> "Saved."
      [] k = 9 -> "Timer set for"
      [] OTHER -> "I heard you, but that action isn't installed yet. Say 'help'."

\* one call of handle_command is over, by return or by an exception
CallOver == pc \in { "returned", "raised" } /\ handled = 1

\* C2 (as amended): handle_command takes the lowest-numbered rule of the
\* fixed order 1..10 whose pattern matches the text, which depends on the
\* text only, and performs the action of that rule and of no other rule:
\* a process is started by rule 5 only, a page opened by rules 6 and 7 only,
\* a note written by rule 8 only, a delay made by rule 9 only, and what is
\* said first is the wording of the rule taken.  In particular a text that
\* matches rule 5 and rule 7 and none of the rules 1 to 4 takes rule 5.
C2_FirstMatchWins ==
    CallOver =>
        LET low == Lower(Strip(cmd))
        IN  /\ rule = Min({ k \in 1..10 : RuleMatches(low, k) })
            /\ Len(launched) = (IF rule = 5 THEN 1 ELSE 0)
            /\ Len(browsed) = (IF rule \in { 6, 7 } THEN 1 ELSE 0)
            /\ \A i \in DOMAIN browsed : browsed[i].query = (rule = 7)
            /\ Len(notes) = (IF rule = 8 /\ pc = "returned" THEN 1 ELSE 0)
            /\ Len(slept) = (IF rule = 9 THEN 1 ELSE 0)
            /\ spoken # << >> =>
                 spoken[1].kind \in { FirstSay(rule), "I couldn't open" }
            /\ spoken # << >> /\ spoken[1].kind = "I couldn't open" => rule = 5
            /\ ( RuleMatches(low, 5) /\ RuleMatches(low, 7)
                 /\ \A k \in 1..4 : ~RuleMatches(low, k) ) => rule = 5

\* a text that matches the patterns of rule 5 and rule 7 has opened the
\* application and searched nothing
C2_Witness ==
    /\ CallOver
    /\ pc = "returned"
    /\ rule = 5
    /\ RuleMatches(Lower(Strip(cmd)), 7)
    /\ Len(launched) = 1
    /\ browsed = << >>

\* C2 as stated: every text that matches rule 5 and rule 7 takes rule 5
C2_AppAlwaysBeforeSearch ==
    CallOver =>
        LET low == Lower(Strip(cmd))
        IN  ( RuleMatches(low, 5) /\ RuleMatches(low, 7) ) => rule = 5

\* the targets of the allowlist for the OS family of the host
AllowedTargets == { AllowedApps[k][PlatformKey(sysPlatform)] : k \in DOMAIN AllowedApps }

\* open_app was called on its own and is over
OpenAppOver == pc \in { "returned", "raised" } /\ handled = 0

\* C3: every call of subprocess.Popen made so far has as its target the
\* allowlist entry, for the OS family of the host, of an allowlisted key,
\* namely of the key open_app was given or handle_command matched, and
\* its other arguments are the fixed words "open" and "-a"; open_app called
\* with a key that is not in the allowlist calls Popen not at all and raises
\* ValueError.
C3_OnlyAllowlistedLaunches ==
    /\ \A i \in DOMAIN launched :
          LET argv   == launched[i].argv
              target == argv[Len(argv)]
              key    == IF handled = 0 THEN Strip(Lower(cmd))
                        ELSE MatchApp(Lower(Strip(cmd))).app
          IN  /\ target \in AllowedTargets
              /\ key \in DOMAIN AllowedApps
              /\ target = AllowedApps[key][PlatformKey(sysPlatform)]
              /\ argv \in { << target >>, << T_open, T_dash_a, target >> }
    /\ ( OpenAppOver /\ Strip(Lower(cmd)) \notin DOMAIN AllowedApps )
          => /\ launched = << >>
             /\ pc = "raised"
             /\ err.type = "ValueError"

\* open_app('firefox') has raised and launched nothing
C3_Witness ==
    /\ OpenAppOver
    /\ cmd = << "f","i","r","e","f","o","x" >>
    /\ pc = "raised"
    /\ launched = << >>

\* C4: in both modes, a transcription that is empty or only white space
\* never reaches handle_command: the step that receives it says "I didn't
\* catch that.", calls nothing else, goes back to waiting for the trigger
\* of its mode, and the session goes on; handle_command is only ever called
\* with a text that holds more than white space.
C4_EmptyNeverDispatched ==
    /\ [](pc = "dispatch" => Strip(cmd) # << >>)
    /\ [](handled > 0 => Strip(cmd) # << >>)
    /\ [][ (pc = "transcribe" /\ pc' # "crashed" /\ Strip(cmd') = << >>)
            => /\ handled' = 0
               /\ spoken' = Append(spoken, Say("I didn't catch that.", << >>, 0))
               /\ pc' = (IF mode = "ptt" THEN "ptt_input" ELSE "wake_listen")
               /\ err' = NoError
               /\ launched' = << >> /\ browsed' = << >> /\ slept' = << >>
               /\ notes' = notes ]_vars

\* the wake-word loop listens again after a recording without words
C4_Witness ==
    /\ mode = "wake"
    /\ pc = "wake_listen"
    /\ rmAttempts = 1
    /\ cmd = << >>
    /\ handled = 0
    /\ Len(spoken) = 2
    /\ spoken[2].kind = "I didn't catch that."

\* the rates to try for a device, as the order is described: its default
\* rate (when it has one), the preferred rate (when given), the fallback
\* ladder, each rate kept where it occurs first
ExpRates(dev, pref) ==
    LET raw  == ( IF dev.default_samplerate # 0 THEN << dev.default_samplerate >> ELSE << >> )
                \o ( IF pref # 0 THEN << pref >> ELSE << >> )
                \o << 44100, 48000, 32000, 24000, 22050, 16000 >>
        firsts == { i \in DOMAIN raw : \A j \in 1..(i - 1) : raw[j] # raw[i] }
    IN  [ n \in 1..Cardinality(firsts) |->
            raw[CHOOSE i \in firsts : Cardinality({ j \in firsts : j <= i }) = n] ]

\* the channel counts to try for a device
ExpChannels(dev) == IF dev.max_input_channels >= 2 THEN << 1, 2 >> ELSE << 1 >>

\* the candidates of one device: rate by rate, and per rate channel count
\* by channel count
ExpDeviceOrder(index, dev, pref) ==
    LET rs == ExpRates(dev, pref)
        cs == ExpChannels(dev)
    IN  [ n \in 1..(Len(rs) * Len(cs)) |->
            [device   |-> index,
             rate     |-> rs[((n - 1) \div Len(cs)) + 1],
             channels |-> cs[((n - 1) % Len(cs)) + 1]] ]

\* the candidates of a host: those of its input-capable devices, in the
\* order the devices are enumerated
RECURSIVE ExpOrderFrom(_, _, _)
ExpOrderFrom(all, pref, i) ==
    IF i > Len(all) THEN << >>
    ELSE ( IF all[i].max_input_channels > 0
           THEN ExpDeviceOrder(i - 1, all[i], pref) ELSE << >> )
         \o ExpOrderFrom(all, pref, i + 1)

ExpOrder(all, pref) == ExpOrderFrom(all, pref, 1)

\* record_ptt has listed the devices
Negotiating == mode = "ptt" /\ pc # "rec_start"

NoInputs == \A i \in DOMAIN devs : devs[i].max_input_channels <= 0

\* C6: record_ptt fails in two ways only.  On a host without an
\* input-capable device it fails at once, no stream having been tried.
\* Otherwise it fails only when every candidate of the fixed order has been
\* attempted and has failed, and the error it raises carries the failure of
\* the last candidate attempted; as long as a candidate is untried, no
\* failure is raised and the search goes on.
C6_OnlyTwoFailures ==
    Negotiating =>
        /\ NoInputs => /\ pc = "crashed"
                       /\ err = Error("RuntimeError", "no input devices", NoCandidate)
                       /\ attempts = << >>
        /\ ( pc = "crashed" /\ ~NoInputs ) =>
              /\ attempts = ExpOrder(devs, preferred)
              /\ err.type = "RuntimeError"
              /\ err.kind \in { "allocate", "open", "read", "write" }
              /\ err.cand = attempts[Len(attempts)]
              /\ lastErr = Error("Exception", err.kind, err.cand)
        /\ pc # "crashed" => err = NoError
        /\ ( pc # "crashed" /\ lastErr # NoError ) =>
              /\ Len(attempts) < Len(ExpOrder(devs, preferred))
                 \/ lastErr.cand # attempts[Len(attempts)]

\* every candidate of two input devices has failed, the last one while
\* reading, and this failure is the one raised
C6_Witness ==
    /\ Negotiating
    /\ pc = "crashed"
    /\ err.kind = "read"
    /\ attempts[1].device = 0
    /\ err.cand.device = 1
    /\ attempts = ExpOrder(devs, preferred)

\* C7 (as amended): a capture that succeeds gives a single-channel file
\* whose number of samples is duration x rate with the fraction cut off
\* (int(), not round()), and 0 when the duration is negative: record_ptt
\* reads blocks until exactly that count is reached, the last block cut to
\* what is missing, and keeps channel 0 of what was delivered;
\* record_command_16k reads whole frames until the count is reached and
\* keeps that many samples.
C7_TruncatedLength ==
    /\ ( Negotiating /\ pc = "rec_read" ) => idx <= frames
    /\ pc = "transcribe" =>
          LET x == seconds * wav.rate
          IN  /\ wav.state = "file"
              /\ wav.channels = 1
              /\ wav.rate = ( IF mode = "ptt" THEN attempts[Len(attempts)].rate
                              ELSE RecorderRate )
              /\ x >= 0 => /\ wav.samples * SecondsDen <= x
                           /\ x < (wav.samples + 1) * SecondsDen
              /\ x < 0 => wav.samples = 0
              /\ mode = "ptt" => wav.filled = wav.samples
              /\ mode = "wake" => /\ wav.filled >= wav.samples
                                  /\ wav.filled - wav.samples < FrameLength

\* a two-channel push-to-talk capture of more than one block whose length
\* is not duration x rate rounded
C7_Witness ==
    /\ Negotiating
    /\ pc = "transcribe"
    /\ attempts[Len(attempts)].channels = 2
    /\ wav.channels = 1
    /\ wav.samples > BlockSize
    /\ wav.samples # RoundDiv(seconds * wav.rate, SecondsDen)

\* C7 as stated, for the durations that are not negative: the file holds
\* round(duration x rate) samples, one channel
C7_RoundedLength ==
    ( pc = "transcribe" /\ seconds >= 0 ) =>
        /\ wav.channels = 1
        /\ wav.samples = RoundDiv(seconds * wav.rate, SecondsDen)

\* C8 as stated: no failure of an action leaves handle_command: whatever
\* the launcher, the browser and the notes file do, a call of
\* handle_command returns, and the session does not end with the exception
\* of an action.
C8_FailuresContained ==
    handled > 0 => err.kind # "action"

\* C9: a text routed to rule 9 with the count n and the unit u sleeps once,
\* for n seconds when u is absent, "second" or "seconds", n x 60 when u is
\* "minute" or "minutes", n x 3600 when u is "hour" or "hours"; before, it
\* confirms with n and with the unit word as it was spoken ("seconds" when
\* absent); after, it says that the time is up, and returns True.
C9_TimerConversion ==
    ( CallOver /\ rule = 9 ) =>
        LET m == MatchTimer(Lower(Strip(cmd)))
            n == ParseInt(m.digits)
            u == IF m.unit = << >> THEN W_seconds ELSE m.unit
            factor == IF u \in { W_minutes, W_minute } THEN 60
                      ELSE IF u \in { W_hours, W_hour } THEN 3600
                      ELSE 1
        IN  /\ m.ok
            /\ pc = "returned"
            /\ keep
            /\ slept = << n * factor >>
            /\ spoken = << Say("Timer set for", u, n), Say("Time is up!", << >>, 0) >>

\* 'timer for 2 minutes' has slept 120 seconds and confirmed with 2 and
\* "minutes"
C9_Witness ==
    /\ CallOver
    /\ rule = 9
    /\ slept = << 120 >>
    /\ spoken[1].n = 2
    /\ spoken[1].arg = W_minutes

\* C10: in both modes the temporary WAV file handed to transcribe is
\* removed by one os.remove call, made when transcribe has returned and
\* also when it has raised, and by no other call in the turn; whether the
\* removal fails or not, the turn goes on as transcribe decided: its
\* exception ends the session, an empty text re-arms the trigger, any
\* other text goes to handle_command.
C10_RemovedOnce ==
    /\ [](pc = "transcribe" => wav.state = "file" /\ rmAttempts = 0)
    /\ []((pc = "dispatch" \/ handled > 0) => rmAttempts = 1)
    /\ [][ pc = "transcribe" =>
             /\ rmAttempts' = 1
             /\ wav'.state \in { "removed", "remove failed" }
             /\ \/ /\ pc' = "crashed"
                   /\ err' = Error("Exception", "transcribe", NoCandidate)
                   /\ cmd' = cmd /\ spoken' = spoken
                \/ /\ pc' = "dispatch"
                   /\ cmd' # << >>
                   /\ err' = NoError /\ spoken' = spoken
                \/ /\ pc' = (IF mode = "ptt" THEN "ptt_input" ELSE "wake_listen")
                   /\ cmd' = << >>
                   /\ err' = NoError
                   /\ spoken' = Append(spoken, Say("I didn't catch that.", << >>, 0)) ]_vars
    /\ [][ rmAttempts' # rmAttempts =>
             \/ pc = "transcribe" /\ rmAttempts' = rmAttempts + 1
             \/ pc' \in { "rec_start", "wake_capture" } /\ rmAttempts' = 0 ]_vars

\* transcribe has raised, the removal was attempted once and has failed
C10_Witness ==
    /\ pc = "crashed"
    /\ err.kind = "transcribe"
    /\ rmAttempts = 1
    /\ wav.state = "remove failed"

\* C11: the two startup errors, a missing or blank access key in wake mode
\* and a host without input devices, end the program before the session
\* loop starts: the program is still in main(), no prompt was spoken, no
\* detector or recorder exists and no frame was read
C11_StartupAbortsBeforeLoop ==
    [][ (err = NoError /\ err'.kind \in { "missing access key", "no input devices" })
           => /\ pc = "main"
              /\ spoken' = << >>
              /\ porcupine' = "none" /\ recorder' = "none"
              /\ frameTo' = "none" ]_vars

\* C12: on a host that answers each candidate the same way every time, a
\* call of record_ptt that finds the device list of an earlier call returns
\* with the candidate that call returned with, and does not fail, whatever
\* calls were made in between
C12_NegotiationIdempotent ==
    /\ pc = "transcribe"
          => \A p \in picked : p.devs = devs => p.cand = attempts[Len(attempts)]
    /\ pc = "crashed" => \A p \in picked : p.devs # devs

\* a call returned with its third candidate or a later one, on a device
\* list an earlier call had seen, after a call on another list
C12_Witness ==
    /\ pc = "transcribe"
    /\ Len(attempts) >= 3
    /\ \E p \in picked : p.devs = devs
    /\ \E p \in picked : p.devs # devs

\* text is what low ends with, without spaces around it
EndsLine(low, text) ==
    /\ text # << >>
    /\ text = Strip(text)
    /\ Len(text) <= Len(low)
    /\ SubSeq(low, Len(low) - Len(text) + 1, Len(low)) = text

\* C13: the notes file only grows at its end: a handle_command that takes
\* the note rule and returns has added one line, the text the command ends
\* with, behind the lines that were there, which are as they were; no other
\* step of the program, and no note rule that raises, changes the file
C13_NotesAppendOnly ==
    [][ IF rule' = 8 /\ handled' = handled + 1 /\ err' = NoError
        THEN /\ Len(notes') = Len(notes) + 1
             /\ SubSeq(notes', 1, Len(notes)) = notes
             /\ EndsLine(Lower(Strip(cmd')), notes'[Len(notes')])
        ELSE notes' = notes ]_vars

\* a note was saved to a file that held a line already
C13_Witness ==
    /\ pc = "returned"
    /\ rule = 8
    /\ Len(notes) = 2
    /\ notes[1] = W_note
    /\ notes[2] # W_note

\* a step in which stream.read of record_ptt raised
PttReadFails == pc = "rec_read" /\ idx < frames /\ idx' = idx

\* a step in which recorder.read of record_command_16k raised
WakeReadFails == pc = "wake_capture" /\ buf < Frames(seconds, RecorderRate) /\ buf' = buf

\* C14 as stated: a read that fails in the middle of a capture ends the
\* capture with an error for the caller; no other candidate is tried
C14_ReadFailurePropagates ==
    [][ (PttReadFails \/ WakeReadFails) => pc' = "crashed" ]_vars

\* C14, amended: a read that fails in the middle of a capture ends that
\* attempt and no file is written for it. record_command_16k passes the
\* error to its caller at once. record_ptt keeps it as the last error and
\* goes on to the next candidate in order, recording from the start again;
\* only when there is no candidate left does the caller get the error
C14_ReadFailureEndsAttempt ==
    [][ /\ PttReadFails =>
             /\ lastErr' = Error("Exception", "read", attempts[Len(attempts)])
             /\ wav' = NoWav
             /\ IF Len(attempts) < Len(ExpOrder(devs, preferred))
                THEN pc' = "rec_open" /\ err' = NoError
                ELSE pc' = "crashed"
                     /\ err' = Error("RuntimeError", "read", attempts[Len(attempts)])
        /\ (mode = "ptt" /\ pc = "rec_open" /\ pc' = "rec_read") =>
             /\ idx' = 0
             /\ attempts' = Append(attempts, ExpOrder(devs, preferred)[Len(attempts) + 1])
        /\ WakeReadFails =>
             /\ pc' = "crashed"
             /\ err' = Error("Exception", "read", NoCandidate)
             /\ wav' = NoWav ]_vars

\* record_ptt is recording again, with a later candidate, after a read of
\* an earlier candidate failed in the middle of its recording
C14_Witness ==
    /\ mode = "ptt"
    /\ pc = "rec_read"
    /\ lastErr.kind = "read"
    /\ Len(attempts) >= 2
    /\ lastErr.cand = attempts[Len(attempts) - 1]
    /\ idx > 0 /\ idx < frames

\* what record_ptt and record_command_16k fail with once a device was found
CaptureFailures == { "allocate", "open", "read", "write" }

\* C15: no session ends because a capture or a transcription failed:
\* neither loop is ever left with an exception raised by record_ptt, by
\* record_command_16k or by transcribe
C15_CaptureFailureNotFatal ==
    pc = "crashed" => err.kind \notin CaptureFailures \cup { "transcribe" }

\* C16: a session loop returns only after a stop word was typed at the
\* prompt, with nothing recorded or transcribed for it, or after a command
\* took the termination rule; a command that takes any other rule makes
\* handle_command return True and the loop wait for the next trigger
C16_OnlyTwoNormalEnds ==
    [][ /\ (pc # "done" /\ pc' = "done") =>
             \/ pc = "ptt_input" /\ attempts' = attempts /\ wav' = wav /\ cmd' = cmd
             \/ pc = "dispatch" /\ rule' = 1 /\ ~keep'
        /\ (pc = "dispatch" /\ rule' # 1) => (keep' /\ pc' = Armed) ]_vars

\* C17: in wake mode, a frame on which the detector finds nothing changes
\* nothing: the loop stays where it reads the next frame. A command is
\* captured only right after a frame that the detector answered with a
\* keyword, transcribed only right after its capture and dispatched only
\* right after its transcription. The frames read for the command go to
\* the buffer and never to the detector
C17_TurnOnlyOnWake ==
    [][ mode = "wake" =>
          /\ (pc = "wake_listen" /\ pc' = "wake_listen") =>
                /\ frameTo' = "detector"
                /\ UNCHANGED << buf, wav, rmAttempts, turnVars, notes, wakeVars, err >>
          /\ (pc # "wake_capture" /\ pc' = "wake_capture") =>
                /\ pc = "wake_listen"
                /\ frameTo' = "detector"
                /\ buf' = 0
          /\ (pc # "transcribe" /\ pc' = "transcribe") => pc = "wake_capture"
          /\ (pc # "dispatch" /\ pc' = "dispatch") => pc = "transcribe"
          /\ handled' # handled => (pc = "dispatch" \/ pc' = "wake_capture")
          /\ pc = "wake_capture" =>
                /\ frameTo' \in { frameTo, "buffer" }
                /\ buf' # buf => frameTo' = "buffer" ]_vars

\* a command was captured in two frames or more after a wake word, and is
\* about to be transcribed
C17_Witness ==
    /\ mode = "wake"
    /\ pc = "transcribe"
    /\ frameTo = "buffer"
    /\ buf >= 2 * FrameLength
    /\ spoken = << Say("Yes?", << >>, 0) >>

\* where the loops could look at a stop flag: at loop top, between two
\* frames and between two blocks of a capture
Checkpoints == { "ptt_input", "wake_listen", "wake_capture", "rec_read" }

\* C18: the stop signal is honoured at a checkpoint: a session that ends
\* because of it ends at the top of its loop, between two frames or between
\* two blocks of a capture, and not inside an open, a transcription or an
\* action that is in progress
C18_CooperativeCancellation ==
    [][ (~stop /\ stop') => pc \in Checkpoints ]_vars

\* the steps of a session in their order: from main() to the trigger, from
\* the trigger to the capture, through the capture to the transcription,
\* from there to the dispatch or back to the trigger, and from the dispatch
\* back to the trigger; every step may end the session
TurnOrder ==
    { << "main", "ptt_input" >>, << "main", "wake_listen" >>,
      << "ptt_input", "rec_start" >>, << "rec_start", "rec_open" >>,
      << "rec_open", "rec_open" >>, << "rec_open", "rec_read" >>,
      << "rec_read", "rec_read" >>, << "rec_read", "rec_open" >>,
      << "rec_read", "transcribe" >>,
      << "wake_listen", "wake_listen" >>, << "wake_listen", "wake_capture" >>,
      << "wake_capture", "wake_capture" >>, << "wake_capture", "transcribe" >>,
      << "transcribe", "dispatch" >>, << "transcribe", Armed >>,
      << "dispatch", Armed >>,
      << "ptt_input", "done" >>, << "dispatch", "done" >> }
    \cup { << p, "crashed" >> :
              p \in { "main", "rec_start", "rec_open", "rec_read", "wake_listen",
                      "wake_capture", "transcribe", "dispatch" } }

\* the seconds a unit word stands for
UnitFactor(u) ==
    IF u \in { W_minutes, W_minute } THEN 60
    ELSE IF u \in { W_hours, W_hour } THEN 3600
    ELSE 1

\* C19: the steps of a session follow each other in the order trigger,
\* capture, transcription, dispatch; a capture begins only at the trigger,
\* with nothing of an earlier turn left; a turn is dispatched once; and when
\* the dispatch of a timer command is over, which is when the trigger is
\* armed again, the whole announced delay has been slept and "Time is up!"
\* has been said
C19_OneTurnInOrder ==
    [][ /\ << pc, pc' >> \in TurnOrder
        /\ (pc' # pc /\ pc' \in { "rec_start", "wake_capture" }) =>
              /\ pc = Armed
              /\ handled' = 0 /\ slept' = << >> /\ wav' = NoWav
        /\ pc = "dispatch" => handled' = 1
        /\ (pc = "dispatch" /\ rule' = 9) =>
              LET k == Len(spoken')
              IN  /\ pc' = Armed
                  /\ k >= 2
                  /\ spoken'[k - 1].kind = "Timer set for"
                  /\ spoken'[k].kind = "Time is up!"
                  /\ slept' = << spoken'[k - 1].n * UnitFactor(spoken'[k - 1].arg) >> ]_vars

\* the trigger is armed again after 'timer for 2 minutes': 120 seconds
\* were slept and the end of the timer was announced
C19_Witness ==
    /\ pc = Armed
    /\ handled = 1
    /\ rule = 9
    /\ slept = << 120 >>
    /\ spoken[Len(spoken)].kind = "Time is up!"

\* C20: a wake-word session that has ended, by return or by an exception,
\* after its detector was created, has attempted each release step once:
\* recorder stop, recorder delete, detector delete
C20_ReleasedOnEveryExit ==
    ( mode = "wake" /\ pc \in { "done", "crashed" } /\ porcupine # "none" )
        => closeLog = << "recorder.stop", "recorder.delete", "porcupine.delete" >>

====
